---------------------------- MODULE Spec2Model ----------------------------
(***************************************************************************)
(* The batched counting driver of examples/mixed_ions_on_MP-v2.py: for     *)
(* each n in 2..max_n it builds the table of charge-neutral stoichiometry  *)
(* counts, enumerates the element combinations of sizes 2..n lazily, and   *)
(* sums count_element_combination over them in batches, either through a   *)
(* multiprocessing.Pool (imap_unordered) or serially (itertools.imap).     *)
(***************************************************************************)
EXTENDS Integers, Sequences, FiniteSets, TLC

(***************************************************************************)
(* Bounds of the model.                                                    *)
(***************************************************************************)
\* Largest count_progress_interval tried besides the default of the script.
MaxInterval == 2
\* Largest mp_chunk_size tried.
MaxChunkSize == 2
\* Evaluations that may raise an unexpected error in one run.
MaxFaults == 1
\* Chunk results that may wait on the result queue at a time.
MaxWaiting == 2

(***************************************************************************)
(* Configuration constants of the script.                                  *)
(***************************************************************************)
max_n == 4
neutral_stoichiometries_threshold == 8
pauling_test_threshold == 0
default_count_progress_interval == 100
default_mp_processes == 4
default_mp_chunk_size == 10

(***************************************************************************)
(* Element data (smact.element_dictionary): symbol, oxidation states and   *)
(* Pauling electronegativity (in hundredths).  The catalogue is listed in  *)
(* the order smact.ordered_elements returns (by atomic number).            *)
(***************************************************************************)
Catalogue == << "H", "Li", "O", "Cu" >>

elements ==
    [ H  |-> [symbol |-> "H",  oxidation_states |-> << 1, -1 >>, pauling_eneg |-> 220],
      Li |-> [symbol |-> "Li", oxidation_states |-> << 1 >>,     pauling_eneg |-> 98],
      O  |-> [symbol |-> "O",  oxidation_states |-> << -2 >>,    pauling_eneg |-> 344],
      Cu |-> [symbol |-> "Cu", oxidation_states |-> << 1, 2 >>,  pauling_eneg |-> 190] ]

(***************************************************************************)
(* Sequence helpers.                                                       *)
(***************************************************************************)
Min(a, b) == IF a <= b THEN a ELSE b

Range(s) == { s[i] : i \in DOMAIN s }

RECURSIVE SeqSum(_)
SeqSum(s) == IF s = << >> THEN 0 ELSE Head(s) + SeqSum(Tail(s))

\* sorted(): insertion of x into an ascending sequence, and the sort itself.
RECURSIVE Insert(_, _)
Insert(x, s) ==
    IF s = << >> THEN << x >>
    ELSE IF x <= Head(s) THEN << x >> \o s
    ELSE << Head(s) >> \o Insert(x, Tail(s))

RECURSIVE sorted(_)
sorted(s) == IF s = << >> THEN << >> ELSE Insert(Head(s), sorted(Tail(s)))

(***************************************************************************)
(* itertools.combinations: the k-long sub-sequences of s, in the           *)
(* lexicographic order of their positions.                                 *)
(***************************************************************************)
\* x put in front of every sequence of ss.
RECURSIVE Prepend(_, _)
Prepend(x, ss) ==
    IF ss = << >> THEN << >>
    ELSE << << x >> \o Head(ss) >> \o Prepend(x, Tail(ss))

RECURSIVE combinations(_, _)
combinations(s, k) ==
    IF k = 0 THEN << << >> >>
    ELSE IF Len(s) < k THEN << >>
    ELSE Prepend(Head(s), combinations(Tail(s), k - 1)) \o combinations(Tail(s), k)

(***************************************************************************)
(* itertools.combinations_with_replacement over a set: one tuple for each   *)
(* multiset of size k, its members in the iteration order of the set.      *)
(* The iteration order of a Python set is not the numeric order; here the  *)
(* positive members come first.                                            *)
(***************************************************************************)
IterBefore(a, b) ==
    IF (a > 0) # (b > 0) THEN a > 0 ELSE a <= b

\* itertools.combinations over the set: no member taken twice.
combinations_without_replacement(S, k) ==
    { t \in [1..k -> S] : \A j \in 1..(k - 1) : t[j] # t[j + 1] /\ IterBefore(t[j], t[j + 1]) }

combinations_with_replacement(S, k) ==
    { t \in [1..k -> S] : \A j \in 1..(k - 1) : IterBefore(t[j], t[j + 1]) }


(***************************************************************************)
(* The script's pure computations.                                         *)
(***************************************************************************)
\* The unique oxidation states across all the elements considered.
oxidation_states(symbols) ==
    UNION { Range(elements[symbols[j]].oxidation_states) : j \in DOMAIN symbols }

\* The keys of the lookup table for n: each multiset of n oxidation states,
\* sorted and cast to a tuple.
oxidation_state_combinations(symbols, m) ==
    { sorted(item) : item \in combinations_with_replacement(oxidation_states(symbols), m) }

\* len(list(smact.charge_neutrality_iter(key, threshold))): the coefficient
\* tuples in 1..threshold, one coefficient per oxidation state, whose
\* weighted sum is zero.
charge_neutrality_count(key, threshold) ==
    Cardinality({ c \in [DOMAIN key -> 1..threshold] :
                    LET partial[j \in 0..Len(key)] ==
                            IF j = 0 THEN 0 ELSE partial[j - 1] + c[j] * key[j]
                    IN  partial[Len(key)] = 0 })

\* charge_neutrality_count at the script's threshold, tabulated once over the
\* ascending tuples of the catalogue's oxidation states.  Its value at a key
\* is that of the operator; merging with the empty function makes TLC hold it
\* as an explicit table instead of re-evaluating the count at every lookup.
CatalogueStates ==
    UNION { { elements[Catalogue[j]].oxidation_states[i] :
                i \in DOMAIN elements[Catalogue[j]].oxidation_states } : j \in DOMAIN Catalogue }

ChargeNeutralityMemo ==
    [ key \in UNION { { t \in [1..m -> CatalogueStates] :
                          \A j \in 1..(m - 1) : t[j] <= t[j + 1] } : m \in 2..max_n } |->
        charge_neutrality_count(key, neutral_stoichiometries_threshold) ] @@ << >>

neutral_stoichiometries_table(symbols, m) ==
    [ key \in oxidation_state_combinations(symbols, m) |-> ChargeNeutralityMemo[key] ]

\* smact.pauling_test with repeat_anions = repeat_cations = True: there is a
\* cation and an anion, and every cation is less electronegative than every
\* anion by more than the threshold.
pauling_test(oxs, enegs, threshold) ==
    /\ \E j \in DOMAIN oxs : oxs[j] > 0
    /\ \E j \in DOMAIN oxs : oxs[j] < 0
    /\ \A j, k \in DOMAIN oxs :
         (oxs[j] > 0 /\ oxs[k] < 0) => enegs[j] < enegs[k] - threshold

\* The (symbol, oxidation_state, pauling_eneg) tuples of one element, and of
\* an element combination, in list order.
RECURSIVE StatesOf(_, _)
StatesOf(sym, oxs) ==
    IF oxs = << >> THEN << >>
    ELSE << << sym, Head(oxs), elements[sym].pauling_eneg >> >> \o StatesOf(sym, Tail(oxs))

RECURSIVE oxidation_states_list(_)
oxidation_states_list(element_combination) ==
    IF element_combination = << >> THEN << >>
    ELSE StatesOf(Head(element_combination),
                  elements[Head(element_combination)].oxidation_states)
         \o oxidation_states_list(Tail(element_combination))

\* The state combinations the inner loop visits, in order.
state_combinations(element_combination, m) ==
    combinations(oxidation_states_list(element_combination), m)

\* [x[c] for x in state_combination]
RECURSIVE Column(_, _)
Column(state_combination, c) ==
    IF state_combination = << >> THEN << >>
    ELSE << Head(state_combination)[c] >> \o Column(Tail(state_combination), c)

StateKey(state_combination) == sorted(Column(state_combination, 2))

PassesFilter(state_combination) ==
    pauling_test(Column(state_combination, 2), Column(state_combination, 3),
                 pauling_test_threshold)

\* The sorted oxidation-state tuples of the state combinations that pass the
\* filter, in the order the inner loop meets them.
RECURSIVE PassingKeysFrom(_, _)
PassingKeysFrom(scs, j) ==
    IF j > Len(scs) THEN << >>
    ELSE IF PassesFilter(scs[j]) THEN << StateKey(scs[j]) >> \o PassingKeysFrom(scs, j + 1)
    ELSE PassingKeysFrom(scs, j + 1)

PassingKeys(element_combination, m) ==
    PassingKeysFrom(state_combinations(element_combination, m), 1)

\* The sub-lists of the catalogue: every element combination any universe yields.
SubLists == UNION { Range(combinations(Catalogue, k)) : k \in 1..Len(Catalogue) }

\* PassingKeys tabulated once per element combination and m (an explicit
\* table, as ChargeNeutralityMemo is).
PassingKeysMemo ==
    [ ec \in SubLists, m \in 2..max_n |-> PassingKeys(ec, m) ] @@ << >>

\* count = count + table[key] over the keys; a key the table lacks raises
\* KeyError.
RECURSIVE LookupSum(_, _)
LookupSum(keys, table) ==
    IF keys = << >> THEN [raised |-> FALSE, count |-> 0]
    ELSE IF Head(keys) \notin DOMAIN table THEN [raised |-> TRUE, count |-> 0]
    ELSE LET rest == LookupSum(Tail(keys), table)
         IN  [raised |-> rest.raised,
              count  |-> IF rest.raised THEN 0 ELSE table[Head(keys)] + rest.count]

\* count_element_combination: the summed table entries of the state
\* combinations that pass the filter.
count_element_combination(element_combination, m, table) ==
    LookupSum(PassingKeysMemo[element_combination, m], table)

\* The sequence combination_generator yields in round m: the element
\* combinations of sizes 2..m, size by size.
RECURSIVE GeneratorFrom(_, _, _)
GeneratorFrom(symbols, i, m) ==
    IF i > m THEN << >>
    ELSE combinations(symbols, i) \o GeneratorFrom(symbols, i + 1, m)

\* The generator's sequence tabulated once per universe and round.
GeneratorMemo ==
    [ u \in SubLists, m \in 2..max_n |-> GeneratorFrom(u, 2, m) ] @@ << >>

combination_generator(symbols, m) == GeneratorMemo[symbols, m]

\* combination_count as the script computes it, by counting per size.
RECURSIVE CombinationCountFrom(_, _, _)
CombinationCountFrom(symbols, i, m) ==
    IF i > m THEN 0
    ELSE Len(combinations(symbols, i)) + CombinationCountFrom(symbols, i + 1, m)

CombinationCount(symbols, m) == CombinationCountFrom(symbols, 2, m)

BatchSize(total, interval) == total \div interval

\* A batch size taken without the min() against what is left.
Iterations_WithoutMin(size, total, pointer) == size

Iterations(size, total, pointer) == Min(size, total - pointer)

\* percent_done as the progress line prints it: 100.0 * data_pointer /
\* combination_count rounded to two decimals, in hundredths of a percent.
PercentDone(pointer, total) == (20000 * pointer + total) \div (2 * total)

\* count = sum(...) in place of count = count + sum(...).
AddBatch_Overwrites(total, sum) == sum

\* count = count + sum(...)
AddBatch(total, sum) == total + sum

\* A data_pointer moved one past the batch.
AdvancePointer_OffByOne(pointer, iters) == pointer + iters + 1

\* data_pointer after a batch of iters combinations.
AdvancePointer(pointer, iters) == pointer + iters

\* The universes the driver is run on: the sub-lists of the catalogue that
\* hold hydrogen and oxygen, in catalogue order.
Universes == { u \in SubLists : { "H", "O" } \subseteq Range(u) }

Intervals == (1..MaxInterval) \cup { default_count_progress_interval }

ChunkSizes == (1..MaxChunkSize) \cup { default_mp_chunk_size }

ProcessCounts == { 1, 2, default_mp_processes }

(***************************************************************************)
(* State.                                                                  *)
(***************************************************************************)
VARIABLES
    element_list,             \* the ordered element universe
    count_progress_interval,  \* number of progress reports asked for
    mp_use,                   \* pool or serial code path
    mp_processes,             \* workers of the pool
    mp_chunk_size,            \* chunksize of imap_unordered
    n,                        \* the round
    pc,                       \* where the main program is
    neutral_stoichiometries,  \* the lookup table of the round
    combination_count,
    batch_size,
    data_pointer,
    count,
    generator_pos,            \* items combination_generator has yielded
    iterations,               \* size of the current batch
    pulled,                   \* next() calls made for the current batch
    stop_iteration,           \* next() was called on the exhausted generator
    batch_sum,                \* the accumulator of sum() over the batch
    received,                 \* results sum() has consumed in the batch
    inqueue,                  \* pool: chunks of tasks not yet taken
    running,                  \* pool: chunks the workers are evaluating
    outqueue,                 \* pool: chunk results not yet consumed, oldest first
    evaluated,                \* times each combination of the round was evaluated
    faults,                   \* evaluations that raised an unexpected error
    reports,                  \* progress lines printed in the round
    totals,                   \* final lines printed: << n, count >>
    error                     \* the exception that ended the run, or "none"

config == << element_list, count_progress_interval, mp_use, mp_processes, mp_chunk_size >>

round == << n, neutral_stoichiometries, combination_count, batch_size >>

batch == << iterations, pulled, stop_iteration, batch_sum, received >>

pool == << inqueue, running, outqueue >>

\* read_oxidation/smact_lattice.py: one call of possible_compositions.
VARIABLES
    crystal,                  \* the Lattice: site_ratios and site_oxidations
    atom,                     \* possible elements for each sub-lattice
    site_elements,            \* compositions found
    lattice_pc,               \* where the call is
    lattice_error             \* the exception that ended the call, or "none"

lattice == << crystal, atom, site_elements, lattice_pc, lattice_error >>

vars == << config, round, pc, data_pointer, count, generator_pos, batch, pool,
           evaluated, faults, reports, totals, error, lattice >>

\* possible_compositions is not called.
LatticeAtRest ==
    /\ crystal = [site_ratios |-> << >>, site_oxidations |-> << >>]
    /\ atom = << >>
    /\ site_elements = << >>
    /\ lattice_pc = "idle"
    /\ lattice_error = "none"

Init ==
    /\ element_list \in Universes
    /\ count_progress_interval \in Intervals
    /\ mp_use \in BOOLEAN
    /\ mp_processes \in IF mp_use THEN ProcessCounts ELSE { default_mp_processes }
    /\ mp_chunk_size \in IF mp_use THEN ChunkSizes ELSE { default_mp_chunk_size }
    /\ n = 2
    /\ pc = "build_table"
    /\ neutral_stoichiometries = << >>
    /\ combination_count = 0
    /\ batch_size = 0
    /\ data_pointer = 0
    /\ count = 0
    /\ generator_pos = 0
    /\ iterations = 0
    /\ pulled = 0
    /\ stop_iteration = FALSE
    /\ batch_sum = 0
    /\ received = 0
    /\ inqueue = << >>
    /\ running = {}
    /\ outqueue = << >>
    /\ evaluated = << >>
    /\ faults = 0
    /\ reports = << >>
    /\ totals = << >>
    /\ error = "none"
    /\ LatticeAtRest

(***************************************************************************)
(* The main program.                                                       *)
(***************************************************************************)
\* An exception swallowed where it is raised: the program carries on.
OnException_Swallowed(where) == where

\* An exception nothing catches ends the run.
OnException(where) == "aborted"

\* The table of the first round built in every round.
BuildTable_ForFirstRound ==
    /\ pc = "build_table"
    /\ neutral_stoichiometries' = neutral_stoichiometries_table(element_list, 2)
    /\ pc' = "init_round"
    /\ UNCHANGED << lattice, config, n, combination_count, batch_size, data_pointer, count,
                    generator_pos, batch, pool, evaluated, faults, reports, totals, error >>

\* The lookup table for round n.
BuildTable ==
    /\ pc = "build_table"
    /\ neutral_stoichiometries' = neutral_stoichiometries_table(element_list, n)
    /\ pc' = "init_round"
    /\ UNCHANGED << lattice, config, n, combination_count, batch_size, data_pointer, count,
                    generator_pos, batch, pool, evaluated, faults, reports, totals, error >>

\* combination_count, batch_size, the counters and the generator of the round.
InitRound ==
    /\ pc = "init_round"
    /\ combination_count' = CombinationCount(element_list, n)
    /\ batch_size' = BatchSize(combination_count', count_progress_interval)
    /\ data_pointer' = 0
    /\ count' = 0
    /\ generator_pos' = 0
    /\ evaluated' = [ j \in 1..combination_count' |-> 0 ]
    /\ reports' = << >>
    /\ pc' = "loop"
    /\ UNCHANGED << lattice, config, n, neutral_stoichiometries, batch, pool, faults, totals, error >>

\* while data_pointer < combination_count: the size of the next batch.
LoopTest ==
    /\ pc = "loop"
    /\ IF data_pointer < combination_count
       THEN /\ iterations' = Iterations(batch_size, combination_count, data_pointer)
            /\ pulled' = 0
            /\ stop_iteration' = FALSE
            /\ batch_sum' = 0
            /\ received' = 0
            /\ pc' = "batch"
       ELSE /\ pc' = "summary"
            /\ UNCHANGED batch
    /\ UNCHANGED << lattice, config, round, data_pointer, count, generator_pos, pool,
                    evaluated, faults, reports, totals, error >>

(***************************************************************************)
(* Evaluating one batch.                                                   *)
(***************************************************************************)
\* The j-th element combination of the round, evaluated against the table.
Evaluate(j) ==
    count_element_combination(combination_generator(element_list, n)[j], n,
                              neutral_stoichiometries)

\* Whether one more evaluation may raise an unexpected error.
FaultChoices == IF faults < MaxFaults THEN BOOLEAN ELSE { FALSE }

\* Serial code path: sum(itertools.imap(...)) pulls the next combination,
\* evaluates it and adds the result.
SerialNext ==
    /\ pc = "batch"
    /\ ~mp_use
    /\ pulled < iterations
    /\ ~stop_iteration
    /\ IF generator_pos >= Len(combination_generator(element_list, n))
       THEN /\ stop_iteration' = TRUE
            /\ UNCHANGED << pc, generator_pos, pulled, batch_sum, received,
                            evaluated, faults, error >>
       ELSE \E fault \in FaultChoices :
              LET j == generator_pos + 1
                  r == Evaluate(j)
              IN  /\ generator_pos' = j
                  /\ pulled' = pulled + 1
                  /\ evaluated' = [evaluated EXCEPT ![j] = @ + 1]
                  /\ faults' = IF fault THEN faults + 1 ELSE faults
                  /\ UNCHANGED stop_iteration
                  /\ IF fault \/ r.raised
                     THEN /\ pc' = OnException(pc)
                          /\ error' = IF fault THEN "WorkerFailure" ELSE "KeyError"
                          /\ UNCHANGED << batch_sum, received >>
                     ELSE /\ batch_sum' = batch_sum + r.count
                          /\ received' = received + 1
                          /\ UNCHANGED << pc, error >>
    /\ UNCHANGED << lattice, config, round, iterations, data_pointer, count, pool, reports, totals >>

\* Pool code path: the task handler pulls the next chunk of the batch from
\* the generator and puts it on the task queue.
TaskPut ==
    /\ pc = "batch"
    /\ mp_use
    /\ pulled < iterations
    /\ ~stop_iteration
    /\ LET want  == Min(mp_chunk_size, iterations - pulled)
           avail == Len(combination_generator(element_list, n)) - generator_pos
           k     == Min(want, avail)
       IN  /\ generator_pos' = generator_pos + k
           /\ pulled' = pulled + k
           /\ stop_iteration' = (avail < want)
           /\ inqueue' = IF k > 0
                         THEN Append(inqueue, << >> \o [ j \in 1..k |-> generator_pos + j ])
                         ELSE inqueue
    /\ UNCHANGED << lattice, config, round, pc, iterations, batch_sum, received, data_pointer,
                    count, running, outqueue, evaluated, faults, reports, totals, error >>

\* An idle worker takes the chunk at the head of the task queue.
WorkerGet ==
    /\ pc = "batch"
    /\ mp_use
    /\ inqueue # << >>
    /\ Cardinality(running) < mp_processes
    /\ running' = running \cup { Head(inqueue) }
    /\ inqueue' = Tail(inqueue)
    /\ UNCHANGED << lattice, config, round, pc, data_pointer, count, generator_pos, batch,
                    outqueue, evaluated, faults, reports, totals, error >>

\* count_element_combination mapped over a chunk, in order.
RECURSIVE MapChunk(_)
MapChunk(chunk) ==
    IF chunk = << >> THEN << >>
    ELSE << Evaluate(Head(chunk)) >> \o MapChunk(Tail(chunk))

\* The first position of results that raised, counting fault_at as one, or 0.
RECURSIVE FirstRaise(_, _, _)
FirstRaise(results, j, fault_at) ==
    IF j > Len(results) THEN 0
    ELSE IF j = fault_at \/ results[j].raised THEN j
    ELSE FirstRaise(results, j + 1, fault_at)

RECURSIVE Counts(_)
Counts(results) ==
    IF results = << >> THEN << >> ELSE << Head(results).count >> \o Counts(Tail(results))

\* A worker maps count_element_combination over its chunk and puts the list
\* of results, or the exception, on the result queue.
WorkerFinish ==
    /\ pc = "batch"
    /\ mp_use
    /\ Len(outqueue) < MaxWaiting
    /\ \E chunk \in running :
         LET results == MapChunk(chunk)
         IN  \E fault_at \in { 0 } \cup (IF faults < MaxFaults THEN DOMAIN chunk ELSE {}) :
               LET stop == FirstRaise(results, 1, fault_at)
                   last == IF stop = 0 THEN Len(chunk) ELSE stop
                   done == { chunk[j] : j \in 1..last }
               IN  /\ running' = running \ { chunk }
                   /\ evaluated' = [ j \in DOMAIN evaluated |->
                                       IF j \in done THEN evaluated[j] + 1 ELSE evaluated[j] ]
                   /\ faults' = IF fault_at # 0 /\ stop = fault_at THEN faults + 1 ELSE faults
                   /\ outqueue' = Append(outqueue,
                          [ chunk  |-> chunk,
                            ok     |-> (stop = 0),
                            values |-> IF stop = 0 THEN Counts(results) ELSE << >>,
                            exc    |-> IF stop = 0 THEN "none"
                                       ELSE IF stop = fault_at THEN "WorkerFailure"
                                       ELSE "KeyError" ])
    /\ UNCHANGED << lattice, config, round, pc, data_pointer, count, generator_pos, batch,
                    inqueue, reports, totals, error >>

\* A sum() that is handed the chunks themselves and adds one number per chunk.
ImapUnorderedSum_PerChunk(acc, values) == acc + Head(values)

\* sum() adds the results imap_unordered hands over.
ImapUnorderedSum(acc, values) == acc + SeqSum(values)

\* sum() over imap_unordered takes the next chunk's results, which arrive in
\* the order the workers finished; a chunk that raised re-raises in the main
\* program.
Collect ==
    /\ pc = "batch"
    /\ mp_use
    /\ outqueue # << >>
    /\ outqueue' = Tail(outqueue)
    /\ IF Head(outqueue).ok
       THEN /\ batch_sum' = ImapUnorderedSum(batch_sum, Head(outqueue).values)
            /\ received' = received + Len(Head(outqueue).chunk)
            /\ UNCHANGED << pc, error >>
       ELSE /\ pc' = OnException(pc)
            /\ error' = Head(outqueue).exc
            /\ UNCHANGED << batch_sum, received >>
    /\ UNCHANGED << lattice, config, round, data_pointer, count, generator_pos, iterations,
                    pulled, stop_iteration, inqueue, running, evaluated, faults,
                    reports, totals >>

\* A sum() that returns as soon as the last task of the batch is pulled.
SumReturns_WithoutWaiting == pulled = iterations \/ stop_iteration

\* sum() returns once every task of the batch was pulled and its result
\* consumed.
SumReturns ==
    /\ pulled = iterations \/ stop_iteration
    /\ received = pulled

\* count = count + sum(...) once sum() has returned.
BatchEnd ==
    /\ pc = "batch"
    /\ SumReturns
    /\ count' = AddBatch(count, batch_sum)
    /\ pc' = "progress"
    /\ UNCHANGED << lattice, config, round, data_pointer, generator_pos, batch, pool,
                    evaluated, faults, reports, totals, error >>

\* After each chunk: advance data_pointer, compute percent_done and
\* time_remaining (a division by data_pointer) and print the progress line.
Progress ==
    /\ pc = "progress"
    /\ IF AdvancePointer(data_pointer, iterations) = 0
       THEN /\ pc' = OnException(pc)
            /\ error' = "ZeroDivisionError"
            /\ UNCHANGED reports
       ELSE /\ reports' = Append(reports,
                 [ done    |-> AdvancePointer(data_pointer, iterations),
                   total   |-> combination_count,
                   percent |-> PercentDone(AdvancePointer(data_pointer, iterations),
                                           combination_count) ])
            /\ pc' = "loop"
            /\ UNCHANGED error
    /\ data_pointer' = AdvancePointer(data_pointer, iterations)
    /\ UNCHANGED << lattice, config, round, count, generator_pos, batch, pool, evaluated,
                    faults, totals >>

\* The result lines of the round; then the next round, if any.
Summary ==
    /\ pc = "summary"
    /\ totals' = Append(totals, << n, count >>)
    /\ IF n < max_n
       THEN n' = n + 1 /\ pc' = "build_table"
       ELSE n' = n /\ pc' = "finished"
    /\ UNCHANGED << lattice, config, neutral_stoichiometries, combination_count, batch_size,
                    data_pointer, count, generator_pos, batch, pool, evaluated,
                    faults, reports, error >>

Next ==
    \/ BuildTable
    \/ InitRound
    \/ LoopTest
    \/ SerialNext
    \/ TaskPut
    \/ WorkerGet
    \/ WorkerFinish
    \/ Collect
    \/ BatchEnd
    \/ Progress
    \/ Summary

Spec == Init /\ [][Next]_vars

(***************************************************************************)
(* read_oxidation/smact_lattice.py: possible_compositions.                 *)
(***************************************************************************)
\* The deepest sub-lattice the nested loops reach.
max_sites == 5

\* Largest site ratio of a crystal.
MaxRatio == 2

\* The dictionary handed to possible_compositions: the oxidation state of
\* each element, and the order the dictionary iterates in.
element_order == << "Li", "Na", "O", "F", "Ar" >>

element_oxidation == [ Li |-> 1, Na |-> 1, O |-> -2, F |-> -1, Ar |-> 0 ]

\* The lists of allowed oxidations a site is given.
OxidationChoices == { << 1 >>, << -2 >>, << -1, 0 >>, << 3 >> }

Crystals ==
    UNION { [ site_ratios : [1..k -> 1..MaxRatio],
              site_oxidations : [1..k -> OxidationChoices] ] : k \in 1..max_sites }

\* The inner loop of possible_elements: element is appended once for every
\* allowed oxidation equal to its own.
RECURSIVE MatchesOf(_, _)
MatchesOf(element, oxidations) ==
    IF oxidations = << >> THEN << >>
    ELSE (IF element_oxidation[element] = Head(oxidations) THEN << element >> ELSE << >>)
         \o MatchesOf(element, Tail(oxidations))

RECURSIVE PossibleElementsFrom(_, _)
PossibleElementsFrom(symbols, oxidations) ==
    IF symbols = << >> THEN << >>
    ELSE MatchesOf(Head(symbols), oxidations) \o PossibleElementsFrom(Tail(symbols), oxidations)

possible_elements(oxidations) == PossibleElementsFrom(element_order, oxidations)

\* charges[i] = int(elements[site_i]) * crystal.site_ratios[i], for the sites
\* assigned so far.
Charges(c, sites) ==
    << >> \o [ i \in DOMAIN sites |-> element_oxidation[sites[i]] * c.site_ratios[i] ]

check_lattice_charges(charges, found, sites) ==
    IF SeqSum(charges) = 0 THEN Append(found, sites) ELSE found

\* The state of a call: the compositions found and the exception raised.
Returned(found) == [exc |-> "none", found |-> found]

\* for site_5 in atom[4]: the first pass reads the undefined name
\* crystal_site_ratios.
Loop5(at, acc) ==
    IF at[5] = << >> THEN acc ELSE [acc EXCEPT !.exc = "NameError"]

\* for site_4 in atom[3], from its j-th pass on.
RECURSIVE Loop4(_, _, _, _, _)
Loop4(c, at, sites, j, acc) ==
    IF j > Len(at[4]) THEN acc
    ELSE Loop4(c, at, sites, j + 1,
               IF Len(at) = 4
               THEN Returned(check_lattice_charges(Charges(c, Append(sites, at[4][j])),
                                                   acc.found, Append(sites, at[4][j])))
               ELSE acc)

\* The body of for site_3: the test of a three-site crystal, the loop over
\* site_4 and, after that loop, the loop over site_5.
Body3(c, at, sites, acc) ==
    LET tested  == IF Len(at) = 3
                   THEN Returned(check_lattice_charges(Charges(c, sites), acc.found, sites))
                   ELSE acc
        after_4 == IF 4 <= Len(at) THEN Loop4(c, at, sites, 1, tested) ELSE tested
    IN  IF 4 <= Len(at) /\ 5 <= Len(at) THEN Loop5(at, after_4) ELSE after_4

RECURSIVE Loop3(_, _, _, _, _)
Loop3(c, at, sites, j, acc) ==
    IF acc.exc # "none" \/ j > Len(at[3]) THEN acc
    ELSE Loop3(c, at, sites, j + 1, Body3(c, at, Append(sites, at[3][j]), acc))

Body2(c, at, sites, acc) ==
    LET tested == IF Len(at) = 2
                  THEN Returned(check_lattice_charges(Charges(c, sites), acc.found, sites))
                  ELSE acc
    IN  IF 3 <= Len(at) THEN Loop3(c, at, sites, 1, tested) ELSE tested

RECURSIVE Loop2(_, _, _, _, _)
Loop2(c, at, sites, j, acc) ==
    IF acc.exc # "none" \/ j > Len(at[2]) THEN acc
    ELSE Loop2(c, at, sites, j + 1, Body2(c, at, Append(sites, at[2][j]), acc))

Body1(c, at, sites, acc) ==
    LET tested == IF Len(at) = 1
                  THEN Returned(check_lattice_charges(Charges(c, sites), acc.found, sites))
                  ELSE acc
    IN  IF 2 <= Len(at) THEN Loop2(c, at, sites, 1, tested) ELSE tested

RECURSIVE Loop1(_, _, _, _)
Loop1(c, at, j, acc) ==
    IF acc.exc # "none" \/ j > Len(at[1]) THEN acc
    ELSE Loop1(c, at, j + 1, Body1(c, at, << at[1][j] >>, acc))

\* The counting driver's state, which a call leaves alone.
driver == << config, round, pc, data_pointer, count, generator_pos, batch, pool,
             evaluated, faults, reports, totals, error >>

\* possible_compositions is called on a crystal.
CallPossibleCompositions ==
    /\ lattice_pc = "idle"
    /\ crystal' \in Crystals
    /\ lattice_pc' = "called"
    /\ UNCHANGED << atom, site_elements, lattice_error, driver >>

\* The while loop: atom[i] = possible_elements(elements, site_oxidations[i]).
CollectPossibleElements ==
    /\ lattice_pc = "called"
    /\ atom' = << >> \o [ i \in DOMAIN crystal.site_oxidations |->
                            possible_elements(crystal.site_oxidations[i]) ]
    /\ lattice_pc' = "search"
    /\ UNCHANGED << crystal, site_elements, lattice_error, driver >>

\* The nested loops over the sites, and the return.
SearchCompositions ==
    /\ lattice_pc = "search"
    /\ LET outcome == Loop1(crystal, atom, 1, Returned(<< >>))
       IN  /\ site_elements' = outcome.found
           /\ lattice_error' = outcome.exc
           /\ lattice_pc' = IF outcome.exc = "none" THEN "returned" ELSE "raised"
    /\ UNCHANGED << crystal, atom, driver >>

LatticeInit ==
    /\ LatticeAtRest
    /\ element_list = << "H", "O" >>
    /\ count_progress_interval = default_count_progress_interval
    /\ mp_use = FALSE
    /\ mp_processes = default_mp_processes
    /\ mp_chunk_size = default_mp_chunk_size
    /\ n = 2
    /\ pc = "idle"
    /\ neutral_stoichiometries = << >>
    /\ combination_count = 0
    /\ batch_size = 0
    /\ data_pointer = 0
    /\ count = 0
    /\ generator_pos = 0
    /\ iterations = 0
    /\ pulled = 0
    /\ stop_iteration = FALSE
    /\ batch_sum = 0
    /\ received = 0
    /\ inqueue = << >>
    /\ running = {}
    /\ outqueue = << >>
    /\ evaluated = << >>
    /\ faults = 0
    /\ reports = << >>
    /\ totals = << >>
    /\ error = "none"

LatticeNext ==
    \/ CallPossibleCompositions
    \/ CollectPossibleElements
    \/ SearchCompositions

LatticeSpec == LatticeInit /\ [][LatticeNext]_vars

(***************************************************************************)
(* Reference computations the properties compare the driver with.          *)
(***************************************************************************)
\* The element combinations of the round under way, in generator order.
Generated == combination_generator(element_list, n)

\* The sum of count_element_combination over items first..last of gen.
RECURSIVE SliceSum(_, _, _, _, _)
SliceSum(gen, m, table, first, last) ==
    IF first > last \/ first > Len(gen) THEN 0
    ELSE count_element_combination(gen[first], m, table).count
         + SliceSum(gen, m, table, first + 1, last)

\* One unbatched pass over every element combination of sizes 2..m.
UnbatchedPass(u, m) ==
    SliceSum(combination_generator(u, m), m, neutral_stoichiometries_table(u, m),
             1, CombinationCount(u, m))

UnbatchedTotal == [ u \in Universes, m \in 2..max_n |-> UnbatchedPass(u, m) ] @@ << >>

\* The serial code path run from data_pointer = pointer with count = acc:
\* the count it prints, or -1 if it stops on the division by data_pointer.
RECURSIVE SerialLoop(_, _, _, _, _, _)
SerialLoop(gen, m, table, size, pointer, acc) ==
    IF pointer >= Len(gen) THEN acc
    ELSE LET iters == Iterations(size, Len(gen), pointer)
         IN  IF AdvancePointer(pointer, iters) = 0 THEN -1
             ELSE SerialLoop(gen, m, table, size, AdvancePointer(pointer, iters),
                             AddBatch(acc, SliceSum(gen, m, table, pointer + 1,
                                                    pointer + iters)))

SerialPass(u, m, interval) ==
    SerialLoop(combination_generator(u, m), m, neutral_stoichiometries_table(u, m),
               BatchSize(CombinationCount(u, m), interval), 0, 0)

SerialTotal ==
    [ u \in Universes, m \in 2..max_n, interval \in Intervals |->
        SerialPass(u, m, interval) ] @@ << >>

\* The combinations pulled from the generator whose result is not yet summed.
RECURSIVE ChunkItems(_)
ChunkItems(chunks) ==
    IF chunks = << >> THEN {} ELSE Range(Head(chunks)) \cup ChunkItems(Tail(chunks))

Outstanding ==
    ChunkItems(inqueue) \cup UNION { Range(c) : c \in running }
        \cup UNION { Range(outqueue[k].chunk) : k \in DOMAIN outqueue }

\* The symbols of a state combination are pairwise different.
DistinctSymbols(state_combination) ==
    \A a, b \in DOMAIN state_combination :
        a # b => state_combination[a][1] # state_combination[b][1]

\* The position of element x in the universe u.
IndexIn(u, x) == CHOOSE i \in DOMAIN u : u[i] = x

\* Element combination a comes before b in the lexicographic order over the
\* positions of their elements in u (a and b of the same length).
RECURSIVE LexBefore(_, _, _)
LexBefore(u, a, b) ==
    IF a = << >> \/ b = << >> THEN FALSE
    ELSE IF IndexIn(u, Head(a)) # IndexIn(u, Head(b))
         THEN IndexIn(u, Head(a)) < IndexIn(u, Head(b))
         ELSE LexBefore(u, Tail(a), Tail(b))

\* gen runs by size and, within a size, in lexicographic order over u.
BySizeThenLex(u, gen) ==
    \A j \in DOMAIN gen : \A k \in DOMAIN gen :
        j < k => \/ Len(gen[j]) < Len(gen[k])
                 \/ Len(gen[j]) = Len(gen[k]) /\ LexBefore(u, gen[j], gen[k])

\* The element combinations of sizes 2..m of u, as a set.
SubsetsUpTo(u, m) ==
    { c \in SubLists : Range(c) \subseteq Range(u) /\ Len(c) >= 2 /\ Len(c) <= m }

(***************************************************************************)
(* Properties.                                                             *)
(***************************************************************************)
\* C1: for a fixed universe, n and progress-report count, the total printed
\* for a round is the one the serial code path prints, whether the batches
\* went through the pool (1, 2 or 4 workers, any chunk size, any completion
\* order) or through the serial path.
C1_PoolTotalIsSerialTotal ==
    \A k \in DOMAIN totals :
        totals[k][2] = SerialTotal[element_list, totals[k][1], count_progress_interval]

\* C1: a pool run has printed a positive total and two chunk results of the
\* next round wait in the opposite order to the one they were dispatched in.
C1_Witness ==
    /\ mp_use
    /\ totals # << >>
    /\ totals[1][2] > 0
    /\ Len(outqueue) = 2
    /\ outqueue[1].ok /\ outqueue[2].ok
    /\ outqueue[1].chunk[1] > outqueue[2].chunk[1]

\* C2: the total the batched loop accumulates for round n equals the total
\* of one unbatched pass applying count_element_combination to every element
\* combination of sizes 2..n.
C2_BatchedTotalIsUnbatchedTotal ==
    \A k \in DOMAIN totals :
        totals[k][2] = UnbatchedTotal[element_list, totals[k][1]]

\* C2: a round of several batches, the last one shorter than batch_size, has
\* printed a positive total.
C2_Witness ==
    /\ pc = "finished"
    /\ Len(reports) > 2
    /\ iterations < batch_size
    /\ totals[Len(totals)] = << n, count >>
    /\ count > 0

\* C3: the counting loop of every round ends with data_pointer equal to
\* combination_count: the run never stops on a division by a data_pointer
\* of zero after a batch of size zero.
C3_CountingTerminates ==
    /\ error # "ZeroDivisionError"
    /\ pc = "summary" => data_pointer = combination_count

\* C4: within a round the percentage printed after each batch never
\* decreases, never exceeds 100, and the line printed after the last batch
\* says 100 % with data_pointer = combination_count.
C4_ProgressMonotoneTo100 ==
    /\ \A k \in DOMAIN reports :
         /\ reports[k].percent <= 10000
         /\ reports[k].done <= reports[k].total
         /\ k > 1 => /\ reports[k - 1].percent <= reports[k].percent
                     /\ reports[k - 1].done <= reports[k].done
    /\ pc = "summary" =>
         /\ reports # << >>
         /\ reports[Len(reports)].done = combination_count
         /\ reports[Len(reports)].percent = 10000

\* C4: a pool round has ended after three or more progress lines with rising
\* percentages, the last batch shorter than batch_size.
C4_Witness ==
    /\ mp_use
    /\ pc = "summary"
    /\ Len(reports) > 2
    /\ reports[1].percent < reports[2].percent
    /\ iterations < batch_size

\* C5: with universe {H, O}, threshold 8 and the default progress-report
\* count, the run for n = 2 completes and prints a total of 1.
C5_HydrogenOxygenTotalIsOne ==
    (/\ element_list = << "H", "O" >>
     /\ count_progress_interval = default_count_progress_interval
     /\ faults = 0)
    => /\ error = "none"
       /\ totals # << >> => totals[1] = << 2, 1 >>

\* C6: the table built for round n has an entry for every key a lookup can
\* ask for: the sorted oxidation states of every state combination that
\* passes the filter, for every element combination of sizes 2..n; so no
\* lookup fails with a missing key.
C6_TableHasEveryKey ==
    /\ error # "KeyError"
    /\ pc \in { "init_round", "loop" } =>
         \A j \in DOMAIN Generated :
             \A key \in Range(PassingKeys(Generated[j], n)) :
                 key \in DOMAIN neutral_stoichiometries

\* C6: an evaluated element combination looked up a key that repeats an
\* oxidation state and found a positive entry.
C6_Witness ==
    /\ pc = "loop"
    /\ \E j \in DOMAIN evaluated :
         /\ evaluated[j] > 0
         /\ \E key \in Range(PassingKeys(Generated[j], n)) :
              /\ \E a \in DOMAIN key : a > 1 /\ key[a - 1] = key[a]
              /\ neutral_stoichiometries[key] > 0

\* C7: in every state combination enumerated for an element combination of
\* size i with n states, two states of the same element appear together
\* only if n > i.
C7_SameElementOnlyIfLarger ==
    \A j \in DOMAIN evaluated :
        evaluated[j] > 0 =>
            \A sc \in Range(state_combinations(Generated[j], n)) :
                DistinctSymbols(sc) \/ n > Len(Generated[j])

\* C8: once an evaluation has raised, the run is over: the step that
\* surfaces the error ends the main program without printing a total for the
\* round, no step follows it, and no element combination is evaluated twice.
C8_ErrorAbortsRun ==
    [][ /\ error = "none"
        /\ error' # "none" =>
             /\ pc' = "aborted"
             /\ totals' = totals
             /\ \A k \in DOMAIN totals : totals[k][1] < n
        /\ \A j \in DOMAIN evaluated' : evaluated'[j] <= 1 ]_vars

\* C8: a pool run was ended by a failed evaluation after earlier batches had
\* added to count, and no total was printed for the round.
C8_Witness ==
    /\ mp_use
    /\ pc = "aborted"
    /\ error = "WorkerFailure"
    /\ count > 0
    /\ Len(totals) = n - 2

\* C9: whenever combination_count >= count_progress_interval, the number
\* of progress lines of a round equals count_progress_interval.
C9_ReportsEqualInterval ==
    (pc = "summary" /\ combination_count >= count_progress_interval)
    => Len(reports) = count_progress_interval

\* C10: batches are not pipelined: every combination pulled but not yet
\* summed belongs to the batch under way, there are never more of them than
\* batch_size, nothing is outstanding outside a batch, and a batch pulls its
\* first combination only after the line of the batch before was printed.
C10_NoPipelining ==
    /\ Outstanding \subseteq (data_pointer + 1)..(data_pointer + iterations)
    /\ Cardinality(Outstanding) <= batch_size
    /\ pc \notin { "batch", "aborted" } => Outstanding = {}
    /\ pc = "batch" =>
         /\ generator_pos >= data_pointer
         /\ generator_pos <= data_pointer + iterations
         /\ data_pointer > 0 =>
              /\ reports # << >>
              /\ reports[Len(reports)].done = data_pointer

\* C10: in a batch after the first, combinations wait on the task queue, in
\* a worker and on the result queue at once.
C10_Witness ==
    /\ pc = "batch"
    /\ data_pointer > 0
    /\ inqueue # << >>
    /\ running # {}
    /\ outqueue # << >>

\* C11: in a round every element combination of sizes 2..n is pulled and
\* evaluated exactly once when the counting loop ends, none is evaluated
\* twice, the generator is never asked for an item once exhausted, the pull
\* order is by size and then lexicographic over element_list, and every
\* batch is the contiguous slice that starts where the batch before ended.
C11_EachCombinationOnceInOrder ==
    /\ ~stop_iteration
    /\ \A j \in DOMAIN evaluated :
         /\ evaluated[j] <= 1
         /\ evaluated[j] = 1 => j <= generator_pos
    /\ pc = "loop" => generator_pos = data_pointer
    /\ pc = "batch" => generator_pos = data_pointer + pulled
    /\ pc \in { "loop", "batch", "progress", "summary" } =>
         /\ BySizeThenLex(element_list, Generated)
         /\ Range(Generated) = SubsetsUpTo(element_list, n)
         /\ Len(Generated) = combination_count
    /\ pc = "summary" =>
         /\ generator_pos = combination_count
         /\ DOMAIN evaluated = 1..combination_count
         /\ \A j \in DOMAIN evaluated : evaluated[j] = 1

\* C11: a pool round of several batches, the last one shorter than
\* batch_size, has ended with every combination of sizes 2..4 evaluated.
C11_Witness ==
    /\ mp_use
    /\ pc = "summary"
    /\ n = max_n
    /\ Len(reports) > 2
    /\ iterations < batch_size
    /\ \A j \in 1..combination_count : evaluated[j] = 1

\* C12, as the code orders the stages: in each round the table for n is
\* built first and once, then combination_count is computed, then the
\* counting loop runs with n, the table and combination_count unchanged,
\* and only the summary of round n leads to the table of round n + 1.
C12_TableThenCountThenLoop ==
    [][ /\ pc = "build_table" =>
             /\ pc' = "init_round"
             /\ neutral_stoichiometries' = neutral_stoichiometries_table(element_list, n)
             /\ UNCHANGED << n, combination_count >>
        /\ pc = "init_round" =>
             /\ pc' = "loop"
             /\ combination_count' = CombinationCount(element_list, n)
             /\ UNCHANGED << n, neutral_stoichiometries >>
        /\ pc \in { "loop", "batch", "progress" } =>
             /\ pc' \in { "loop", "batch", "progress", "summary", "aborted" }
             /\ UNCHANGED << n, neutral_stoichiometries, combination_count >>
        /\ pc = "summary" =>
             /\ UNCHANGED << neutral_stoichiometries, combination_count >>
             /\ \/ n < max_n /\ n' = n + 1 /\ pc' = "build_table"
                \/ n = max_n /\ n' = n /\ pc' = "finished"
        /\ pc \notin { "finished", "aborted" } ]_vars

\* C12: the counting loop of the second round runs on the table and the
\* combination_count of that round, after the total of the first was printed.
C12_Witness ==
    /\ pc = "batch"
    /\ n = 3
    /\ Len(totals) = 1
    /\ data_pointer > 0
    /\ neutral_stoichiometries = neutral_stoichiometries_table(element_list, 3)
    /\ combination_count = CombinationCount(element_list, 3)

\* C12, as stated: in each round combination_count is computed first, then
\* the table for n is built, then the counting loop starts; the table is not
\* touched while the loop runs, and the summary of round n leads to the
\* computation of combination_count for n + 1.
C12_CountThenTableThenLoop ==
    [][ /\ pc = "init_round" => pc' = "build_table"
        /\ pc = "build_table" => pc' = "loop"
        /\ pc \in { "loop", "batch", "progress" } =>
             UNCHANGED << n, neutral_stoichiometries, combination_count >>
        /\ (pc = "summary" /\ n < max_n) => pc' = "init_round" ]_vars

\* The k-long site assignments of a crystal: one candidate per site, the
\* charges times the site ratios summing to zero.
NeutralAssignments(c) ==
    { a \in [DOMAIN c.site_ratios -> Range(element_order)] :
        /\ \A i \in DOMAIN a : element_oxidation[a[i]] \in Range(c.site_oxidations[i])
        /\ SeqSum(Charges(c, a)) = 0 }

\* C13: for a crystal of 1 to 5 sites possible_compositions returns, without
\* raising, exactly the charge-neutral site assignments, each listing every
\* site; it returns the empty list when there is none.
C13_ReturnsNeutralAssignments ==
    /\ lattice_error = "none"
    /\ lattice_pc = "returned" => Range(site_elements) = NeutralAssignments(crystal)

=============================================================================
